---- MODULE Spec2Model ----
(***************************************************************************)
(* A model of the thread pool of src/src/lib.rs: ThreadPool::new,          *)
(* ThreadPool::execute, Drop for ThreadPool, and the loop of the thread    *)
(* that Worker::new spawns.  The mpsc channel is a FIFO sequence, the      *)
(* Mutex around its receiver is a lock with one holder, and every worker   *)
(* thread and the owning thread have a program counter.                    *)
(***************************************************************************)
EXTENDS Integers, Sequences, FiniteSets, TLC

\* ---------------------------------------------------------------- bounds
\* The largest size handed to ThreadPool::new (0 is tried as well).
MaxSize == 2
\* The number of calls of execute made on one pool, over all threads.
MaxJobs == 2
\* The number of connections the server of main.rs accepts.
MaxConns == 6
\* The threads that call execute on the shared pool reference.
Producers == {"p1", "p2"}

\* ----------------------------------------------------------------- state
VARIABLES
    size,      \* the argument of ThreadPool::new
    pc,        \* where the thread that owns the pool is
    i,         \* the index of the running for loop of new / drop
    channel,   \* "none" before mpsc::channel(), "open" after, "closed" once the sender is dropped
    queue,     \* the messages in the channel, oldest first
    lock,      \* the holder of the Mutex around the receiver, or NoOne
    workers,   \* ThreadPool.workers: the ids of the Worker values, in push order
    handle,    \* Worker.thread of each id: "Some" or "None"
    wpc,       \* where each worker thread is
    wmsg,      \* the message each worker thread holds (the local `message`)
    sent,      \* how many times each producer has called execute
    enq,       \* history: every message sent, in send order
    deq,       \* history: every message received, in receive order
    stops,     \* history: how many Terminate messages each worker thread has received
    log,       \* history: the jobs in the order their closures were called
    finished,  \* history: how many times each job's closure has run to its end
    srv        \* the server of main.rs: where its thread is, its connections and responses

vars == <<size, pc, i, channel, queue, lock, workers, handle, wpc, wmsg,
          sent, enq, deq, stops, log, finished, srv>>

\* The worker ids a pool of the largest size uses: `for id in 0..size`.
Slots == 0 .. (MaxSize - 1)
NoOne == -1
NoMsg == [type |-> "None"]

\* The jobs: the k-th closure handed to execute by producer p.
Jobs == Producers \X (1 .. MaxJobs)

\* enum Message { NewJob(Job), Terminate }.  The field n of a Terminate is the
\* iteration of drop's first loop that sent it; the code's Terminate carries nothing.
NewJob(job) == [type |-> "NewJob", job |-> job]
Terminate(n) == [type |-> "Terminate", n |-> n]

RECURSIVE SumOver(_, _)
SumOver(f, S) ==
    IF S = {} THEN 0
    ELSE LET x == CHOOSE y \in S : TRUE IN f[x] + SumOver(f, S \ {x})

TotalSent == SumOver(sent, Producers)

Init ==
    /\ size \in 0 .. MaxSize
    /\ pc = "start"
    /\ i = 0
    /\ channel = "none"
    /\ queue = <<>>
    /\ lock = NoOne
    /\ workers = <<>>
    /\ handle = [w \in Slots |-> "None"]
    /\ wpc = [w \in Slots |-> "unspawned"]
    /\ wmsg = [w \in Slots |-> NoMsg]
    /\ sent = [p \in Producers |-> 0]
    /\ enq = <<>>
    /\ deq = <<>>
    /\ stops = [w \in Slots |-> 0]
    /\ log = <<>>
    /\ finished = [j \in Jobs |-> 0]
    /\ srv = [pc |-> "bind", accepted |-> 0, resp |-> <<>>]

\* ------------------------------------------------------- ThreadPool::new
\* NewAssert without the assert: every size goes on.
NewAssertMissing ==
    /\ pc = "start"
    /\ pc' = "new_channel"
    /\ UNCHANGED <<srv, size, i, channel, queue, lock, workers, handle, wpc, wmsg,
                   sent, enq, deq, stops, log, finished>>

\* assert!(size > 0): a size of zero panics, anything else goes on.
NewAssert ==
    /\ pc = "start"
    /\ pc' = IF size > 0 THEN "new_channel" ELSE "new_panicked"
    /\ UNCHANGED <<srv, size, i, channel, queue, lock, workers, handle, wpc, wmsg,
                   sent, enq, deq, stops, log, finished>>

\* mpsc::channel(), Arc::new(Mutex::new(receiver)), Vec::with_capacity(size).
NewChannel ==
    /\ pc = "new_channel"
    /\ channel' = "open"
    /\ queue' = <<>>
    /\ lock' = NoOne
    /\ workers' = <<>>
    /\ i' = 0
    /\ pc' = "new_spawn"
    /\ UNCHANGED <<srv, size, handle, wpc, wmsg, sent, enq, deq, stops, log, finished>>

\* NewSpawn whose loop runs over 0..=size: one worker too many.
NewSpawnInclusive ==
    /\ pc = "new_spawn"
    /\ i <= size
    /\ i \in Slots
    /\ wpc' = [wpc EXCEPT ![i] = "idle"]
    /\ handle' = [handle EXCEPT ![i] = "Some"]
    /\ workers' = Append(workers, i)
    /\ i' = i + 1
    /\ UNCHANGED <<srv, size, pc, channel, queue, lock, wmsg, sent, enq, deq, stops, log, finished>>

\* One iteration of `for id in 0..size`: Worker::new(id, ..) spawns the thread,
\* which starts at the top of its loop, and the Worker is pushed.
NewSpawn ==
    /\ pc = "new_spawn"
    /\ i < size
    /\ wpc' = [wpc EXCEPT ![i] = "idle"]
    /\ handle' = [handle EXCEPT ![i] = "Some"]
    /\ workers' = Append(workers, i)
    /\ i' = i + 1
    /\ UNCHANGED <<srv, size, pc, channel, queue, lock, wmsg, sent, enq, deq, stops, log, finished>>

\* The loop is over: ThreadPool { workers, sender } is returned.
NewReturn ==
    /\ pc = "new_spawn"
    /\ i = size
    /\ pc' = "alive"
    /\ UNCHANGED <<srv, size, i, channel, queue, lock, workers, handle, wpc, wmsg,
                   sent, enq, deq, stops, log, finished>>

\* --------------------------------------------------- ThreadPool::execute
\* Execute that can also be called while drop sends its Terminate messages.
ExecuteDuringDrop(p) ==
    /\ pc \in {"alive", "drop_send"}
    /\ channel = "open"
    /\ TotalSent < MaxJobs
    /\ LET m == NewJob(<<p, sent[p] + 1>>) IN
        /\ queue' = Append(queue, m)
        /\ enq' = Append(enq, m)
    /\ sent' = [sent EXCEPT ![p] = @ + 1]
    /\ UNCHANGED <<srv, size, pc, i, channel, lock, workers, handle, wpc, wmsg,
                   deq, stops, log, finished>>

\* Execute that runs the closure on a thread of its own when a slot outside the
\* pool is free, as a server that spawns a thread per job does.
ExecuteSpawnsThread(p) ==
    /\ pc = "alive"
    /\ channel = "open"
    /\ TotalSent < MaxJobs
    /\ LET m == NewJob(<<p, sent[p] + 1>>)
           free == {w \in Slots : wpc[w] = "unspawned"} IN
        /\ enq' = Append(enq, m)
        /\ IF free = {}
           THEN /\ queue' = Append(queue, m)
                /\ UNCHANGED <<wpc, wmsg, deq, log>>
           ELSE LET w == CHOOSE x \in free : TRUE IN
                /\ wpc' = [wpc EXCEPT ![w] = "exec"]
                /\ wmsg' = [wmsg EXCEPT ![w] = m]
                /\ deq' = Append(deq, m)
                /\ log' = Append(log, m.job)
                /\ queue' = queue
    /\ sent' = [sent EXCEPT ![p] = @ + 1]
    /\ UNCHANGED <<srv, size, pc, i, channel, lock, workers, handle, stops, finished>>

\* execute takes &self, so it runs only between new's return and drop's start.
\* sender.send(Message::NewJob(job)) appends to the channel and never blocks;
\* it errs only when the receiver is gone, which the worker threads keep alive.
\* The bound on the number of calls is the model's, not the code's.
Execute(p) ==
    /\ pc = "alive"
    /\ channel = "open"
    /\ TotalSent < MaxJobs
    /\ LET m == NewJob(<<p, sent[p] + 1>>) IN
        /\ queue' = Append(queue, m)
        /\ enq' = Append(enq, m)
    /\ sent' = [sent EXCEPT ![p] = @ + 1]
    /\ UNCHANGED <<srv, size, pc, i, channel, lock, workers, handle, wpc, wmsg,
                   deq, stops, log, finished>>

\* ------------------------------------------------- the worker's thread
\* Lock that does not wait for the Mutex to be free.
LockNoExclusion(w) ==
    /\ wpc[w] = "idle"
    /\ lock' = w
    /\ wpc' = [wpc EXCEPT ![w] = "locked"]
    /\ UNCHANGED <<srv, size, pc, i, channel, queue, workers, handle, wmsg,
                   sent, enq, deq, stops, log, finished>>

\* receiver.lock().unwrap(): taken when no thread holds the Mutex.
Lock(w) ==
    /\ wpc[w] = "idle"
    /\ lock = NoOne
    /\ lock' = w
    /\ wpc' = [wpc EXCEPT ![w] = "locked"]
    /\ UNCHANGED <<srv, size, pc, i, channel, queue, workers, handle, wmsg,
                   sent, enq, deq, stops, log, finished>>

\* Recv that reads the oldest message and leaves it in the channel.
RecvPeek(w) ==
    /\ wpc[w] = "locked"
    /\ queue # <<>>
    /\ wmsg' = [wmsg EXCEPT ![w] = Head(queue)]
    /\ deq' = Append(deq, Head(queue))
    /\ stops' = [stops EXCEPT ![w] = IF Head(queue).type = "Terminate" THEN @ + 1 ELSE @]
    /\ wpc' = [wpc EXCEPT ![w] = "got"]
    /\ UNCHANGED <<srv, size, pc, i, channel, queue, lock, workers, handle,
                   sent, enq, log, finished>>

\* Recv that takes the newest message instead of the oldest.
RecvLast(w) ==
    /\ wpc[w] = "locked"
    /\ queue # <<>>
    /\ LET m == queue[Len(queue)] IN
        /\ wmsg' = [wmsg EXCEPT ![w] = m]
        /\ deq' = Append(deq, m)
        /\ stops' = [stops EXCEPT ![w] = IF m.type = "Terminate" THEN @ + 1 ELSE @]
    /\ queue' = SubSeq(queue, 1, Len(queue) - 1)
    /\ wpc' = [wpc EXCEPT ![w] = "got"]
    /\ UNCHANGED <<srv, size, pc, i, channel, lock, workers, handle,
                   sent, enq, log, finished>>

\* .recv().unwrap() under the guard: blocks while the channel is empty, then
\* takes the oldest message.  recv() errs only on an empty channel whose sender
\* is gone; the sender goes after drop has joined every worker, so no worker
\* that returns from its jobs sees that.
Recv(w) ==
    /\ wpc[w] = "locked"
    /\ queue # <<>>
    /\ wmsg' = [wmsg EXCEPT ![w] = Head(queue)]
    /\ deq' = Append(deq, Head(queue))
    /\ stops' = [stops EXCEPT ![w] = IF Head(queue).type = "Terminate" THEN @ + 1 ELSE @]
    /\ queue' = Tail(queue)
    /\ wpc' = [wpc EXCEPT ![w] = "got"]
    /\ UNCHANGED <<srv, size, pc, i, channel, lock, workers, handle,
                   sent, enq, log, finished>>

\* Unlock that keeps the guard alive over the match, as a guard bound to a
\* variable of the loop body would be.
UnlockKeep(w) ==
    /\ wpc[w] = "got"
    /\ wpc' = [wpc EXCEPT ![w] = "match"]
    /\ UNCHANGED <<srv, size, pc, i, channel, queue, lock, workers, handle, wmsg,
                   sent, enq, deq, stops, log, finished>>

\* The end of the `let message = ...;` statement drops the temporary MutexGuard.
Unlock(w) ==
    /\ wpc[w] = "got"
    /\ lock' = NoOne
    /\ wpc' = [wpc EXCEPT ![w] = "match"]
    /\ UNCHANGED <<srv, size, pc, i, channel, queue, workers, handle, wmsg,
                   sent, enq, deq, stops, log, finished>>

\* Match without the break: after a Terminate the loop goes round.
MatchNoBreak(w) ==
    /\ wpc[w] = "match"
    /\ IF wmsg[w].type = "NewJob"
       THEN /\ wpc' = [wpc EXCEPT ![w] = "exec"]
            /\ log' = Append(log, wmsg[w].job)
            /\ wmsg' = wmsg
       ELSE /\ wpc' = [wpc EXCEPT ![w] = "idle"]
            /\ wmsg' = [wmsg EXCEPT ![w] = NoMsg]
            /\ log' = log
    /\ UNCHANGED <<srv, size, pc, i, channel, queue, lock, workers, handle,
                   sent, enq, deq, stops, finished>>

\* Match that breaks on every message: a NewJob is dropped uncalled with the thread.
MatchAlwaysBreak(w) ==
    /\ wpc[w] = "match"
    /\ wpc' = [wpc EXCEPT ![w] = "terminated"]
    /\ wmsg' = IF wmsg[w].type = "NewJob" THEN wmsg ELSE [wmsg EXCEPT ![w] = NoMsg]
    /\ UNCHANGED <<srv, size, pc, i, channel, queue, lock, workers, handle,
                   sent, enq, deq, stops, log, finished>>

\* match message: NewJob(job) calls job(), Terminate breaks out of the loop and
\* the thread returns.
Match(w) ==
    /\ wpc[w] = "match"
    /\ IF wmsg[w].type = "NewJob"
       THEN /\ wpc' = [wpc EXCEPT ![w] = "exec"]
            /\ log' = Append(log, wmsg[w].job)
            /\ wmsg' = wmsg
       ELSE /\ wpc' = [wpc EXCEPT ![w] = "terminated"]
            /\ wmsg' = [wmsg EXCEPT ![w] = NoMsg]
            /\ log' = log
    /\ UNCHANGED <<srv, size, pc, i, channel, queue, lock, workers, handle,
                   sent, enq, deq, stops, finished>>

\* Finish after which the thread returns instead of looping.
FinishExit(w) ==
    /\ wpc[w] = "exec"
    /\ finished' = [finished EXCEPT ![wmsg[w].job] = @ + 1]
    /\ wmsg' = [wmsg EXCEPT ![w] = NoMsg]
    /\ wpc' = [wpc EXCEPT ![w] = "terminated"]
    /\ UNCHANGED <<srv, size, pc, i, channel, queue, lock, workers, handle,
                   sent, enq, deq, stops, log>>

\* job() returns; the loop goes round.
Finish(w) ==
    /\ wpc[w] = "exec"
    /\ finished' = [finished EXCEPT ![wmsg[w].job] = @ + 1]
    /\ wmsg' = [wmsg EXCEPT ![w] = NoMsg]
    /\ wpc' = [wpc EXCEPT ![w] = "idle"]
    /\ UNCHANGED <<srv, size, pc, i, channel, queue, lock, workers, handle,
                   sent, enq, deq, stops, log>>

\* -------------------------------------------------- Drop for ThreadPool
\* drop(&mut self) starts: no execute can run any more.
DropBegin ==
    /\ pc = "alive"
    /\ pc' = "drop_send"
    /\ i' = 0
    /\ UNCHANGED <<srv, size, channel, queue, lock, workers, handle, wpc, wmsg,
                   sent, enq, deq, stops, log, finished>>

\* DropSend that sends two Terminate messages in one iteration.
DropSendTwice ==
    /\ pc = "drop_send"
    /\ i < Len(workers)
    /\ queue' = queue \o <<Terminate(i), Terminate(i)>>
    /\ enq' = enq \o <<Terminate(i), Terminate(i)>>
    /\ i' = i + 1
    /\ UNCHANGED <<srv, size, pc, channel, lock, workers, handle, wpc, wmsg,
                   sent, deq, stops, log, finished>>

\* DropSend that puts the Terminate in front of the waiting messages.
DropSendFront ==
    /\ pc = "drop_send"
    /\ i < Len(workers)
    /\ queue' = <<Terminate(i)>> \o queue
    /\ enq' = Append(enq, Terminate(i))
    /\ i' = i + 1
    /\ UNCHANGED <<srv, size, pc, channel, lock, workers, handle, wpc, wmsg,
                   sent, deq, stops, log, finished>>

\* One iteration of `for _ in &self.workers`: send a Terminate.
DropSend ==
    /\ pc = "drop_send"
    /\ i < Len(workers)
    /\ queue' = Append(queue, Terminate(i))
    /\ enq' = Append(enq, Terminate(i))
    /\ i' = i + 1
    /\ UNCHANGED <<srv, size, pc, channel, lock, workers, handle, wpc, wmsg,
                   sent, deq, stops, log, finished>>

\* DropSendDone that may leave the first loop one iteration early.
DropSendDoneEarly ==
    /\ pc = "drop_send"
    /\ i >= Len(workers) - 1
    /\ pc' = "drop_join"
    /\ i' = 0
    /\ UNCHANGED <<srv, size, channel, queue, lock, workers, handle, wpc, wmsg,
                   sent, enq, deq, stops, log, finished>>

\* The first loop is over; the second one starts.
DropSendDone ==
    /\ pc = "drop_send"
    /\ i = Len(workers)
    /\ pc' = "drop_join"
    /\ i' = 0
    /\ UNCHANGED <<srv, size, channel, queue, lock, workers, handle, wpc, wmsg,
                   sent, enq, deq, stops, log, finished>>

\* DropJoin that takes the handle and drops it without join().
DropJoinNoWait ==
    /\ pc = "drop_join"
    /\ i < Len(workers)
    /\ handle' = [handle EXCEPT ![workers[i + 1]] = "None"]
    /\ i' = i + 1
    /\ UNCHANGED <<srv, size, pc, channel, queue, lock, workers, wpc, wmsg,
                   sent, enq, deq, stops, log, finished>>

\* One iteration of `for worker in &mut self.workers`: worker.thread.take(), and
\* join() on a Some, which returns once that thread has returned.
DropJoin ==
    /\ pc = "drop_join"
    /\ i < Len(workers)
    /\ LET w == workers[i + 1] IN
        /\ handle[w] = "Some" => wpc[w] = "terminated"
        /\ handle' = [handle EXCEPT ![w] = "None"]
    /\ i' = i + 1
    /\ UNCHANGED <<srv, size, pc, channel, queue, lock, workers, wpc, wmsg,
                   sent, enq, deq, stops, log, finished>>

\* drop returns; the fields are dropped after it, the sender among them.
DropReturn ==
    /\ pc = "drop_join"
    /\ i = Len(workers)
    /\ pc' = "dropped"
    /\ channel' = "closed"
    /\ UNCHANGED <<srv, size, i, queue, lock, workers, handle, wpc, wmsg,
                   sent, enq, deq, stops, log, finished>>

\* ------------------------------------------------------- specification
Worker(w) == Lock(w) \/ Recv(w) \/ Unlock(w) \/ Match(w) \/ Finish(w)

Next ==
    \/ NewAssert
    \/ NewChannel
    \/ NewSpawn
    \/ NewReturn
    \/ \E p \in Producers : Execute(p)
    \/ \E w \in Slots : Lock(w)
    \/ \E w \in Slots : Recv(w)
    \/ \E w \in Slots : Unlock(w)
    \/ \E w \in Slots : Match(w)
    \/ \E w \in Slots : Finish(w)
    \/ DropBegin
    \/ DropSend
    \/ DropSendDone
    \/ DropJoin
    \/ DropReturn

Spec == Init /\ [][Next]_vars

\* The steps of drop once it has started, and of new: the owning thread keeps running.
Owner == NewAssert \/ NewChannel \/ NewSpawn \/ NewReturn
            \/ DropSend \/ DropSendDone \/ DropJoin \/ DropReturn

\* Every thread that can take a step is scheduled in the end.  The Mutex promises
\* no fairness between the workers that wait for it, and none is assumed: a
\* worker's Lock step is only weakly fair.  Whether execute or drop is called
\* at all is up to the program that uses the pool.
FairSpec ==
    /\ Spec
    /\ WF_vars(Owner)
    /\ \A w \in Slots : WF_vars(Worker(w))

\* ------------------------------------------------- a job that panics
\* Nothing in the pool catches a panic of job(): it unwinds the worker's thread.
\* One closure is taken to panic when called, the first one of producer p1;
\* every other closure returns.
BadJob == <<"p1", 1>>

\* The threads that are running their loop.  Each owns a clone of the
\* Arc<Mutex<Receiver>>; new's own Arc is dropped when new returns.
Live == {w \in Slots : wpc[w] \in {"idle", "locked", "got", "match", "exec"}}
\* The state of the Mutex after a thread panicked while holding its guard.
Poisoned == -2

\* job() panics: the thread unwinds and ends, its closure and its Arc clone are
\* dropped.  A guard held by the thread would poison the Mutex.  With the last
\* clone goes the Receiver, and with it every message still in the channel.
JobPanic(w) ==
    /\ wpc[w] = "exec"
    /\ wmsg[w].job = BadJob
    /\ wpc' = [wpc EXCEPT ![w] = "panicked"]
    /\ wmsg' = [wmsg EXCEPT ![w] = NoMsg]
    /\ lock' = IF lock = w THEN Poisoned ELSE lock
    /\ IF Live = {w} /\ pc # "new_spawn"
       THEN channel' = "rx_dropped" /\ queue' = <<>>
       ELSE UNCHANGED <<channel, queue>>
    /\ UNCHANGED <<srv, size, pc, i, workers, handle,
                   sent, enq, deq, stops, log, finished>>

\* job() returns, for every closure but the one that panics.
FinishOk(w) ==
    /\ wpc[w] = "exec"
    /\ wmsg[w].job # BadJob
    /\ Finish(w)

\* execute when the Receiver is gone: send() errs and unwrap() panics in the
\* caller.  The closure is dropped uncalled.
ExecuteFail(p) ==
    /\ pc = "alive"
    /\ channel = "rx_dropped"
    /\ TotalSent < MaxJobs
    /\ pc' = "execute_panicked"
    /\ UNCHANGED <<srv, size, i, channel, queue, lock, workers, handle, wpc, wmsg,
                   sent, enq, deq, stops, log, finished>>

\* An iteration of drop's first loop while the Receiver is there.
DropSendOk ==
    /\ channel = "open"
    /\ DropSend

\* An iteration of drop's first loop when the Receiver is gone: send() errs and
\* unwrap() panics out of drop; the fields are dropped by the unwinding.
DropSendFail ==
    /\ pc = "drop_send"
    /\ i < Len(workers)
    /\ channel = "rx_dropped"
    /\ pc' = "drop_panicked"
    /\ channel' = "closed"
    /\ UNCHANGED <<srv, size, i, queue, lock, workers, handle, wpc, wmsg,
                   sent, enq, deq, stops, log, finished>>

\* DropJoinFail whose join() keeps waiting for a thread that panicked.
DropJoinFailHangs ==
    /\ pc = "drop_join"
    /\ FALSE
    /\ UNCHANGED vars

\* An iteration of drop's second loop on a worker whose thread panicked: join()
\* returns Err at once and unwrap() panics out of drop; the fields, the sender
\* among them, are dropped by the unwinding and the other threads run on.
DropJoinFail ==
    /\ pc = "drop_join"
    /\ i < Len(workers)
    /\ handle[workers[i + 1]] = "Some"
    /\ wpc[workers[i + 1]] = "panicked"
    /\ handle' = [handle EXCEPT ![workers[i + 1]] = "None"]
    /\ pc' = "drop_panicked"
    /\ channel' = "closed"
    /\ UNCHANGED <<srv, size, i, queue, lock, workers, wpc, wmsg,
                   sent, enq, deq, stops, log, finished>>

WorkerPanic(w) == Lock(w) \/ Recv(w) \/ Unlock(w) \/ Match(w) \/ FinishOk(w) \/ JobPanic(w)

NextPanic ==
    \/ NewAssert
    \/ NewChannel
    \/ NewSpawn
    \/ NewReturn
    \/ \E p \in Producers : Execute(p)
    \/ \E p \in Producers : ExecuteFail(p)
    \/ \E w \in Slots : Lock(w)
    \/ \E w \in Slots : Recv(w)
    \/ \E w \in Slots : Unlock(w)
    \/ \E w \in Slots : Match(w)
    \/ \E w \in Slots : FinishOk(w)
    \/ \E w \in Slots : JobPanic(w)
    \/ DropBegin
    \/ DropSendOk
    \/ DropSendFail
    \/ DropSendDone
    \/ DropJoin
    \/ DropJoinFail
    \/ DropReturn

\* The pool with the closure BadJob panicking when it is called.
SpecPanic == Init /\ [][NextPanic]_vars

OwnerPanic == NewAssert \/ NewChannel \/ NewSpawn \/ NewReturn
                 \/ DropSendOk \/ DropSendFail \/ DropSendDone
                 \/ DropJoin \/ DropJoinFail \/ DropReturn

\* SpecPanic with the scheduling of FairSpec.
FairPanicSpec ==
    /\ SpecPanic
    /\ WF_vars(OwnerPanic)
    /\ \A w \in Slots : WF_vars(WorkerPanic(w))

\* ----------------------------------------------------------- observers
Range(s) == {s[k] : k \in 1 .. Len(s)}
Count(s, x) == Cardinality({k \in 1 .. Len(s) : s[k] = x})
IsPrefix(s, t) == Len(s) <= Len(t) /\ s = SubSeq(t, 1, Len(s))
IsNewJob(m) == m.type = "NewJob"

\* The jobs of the NewJob messages of a sequence of messages, in its order.
RECURSIVE JobsOf(_)
JobsOf(s) ==
    IF s = <<>> THEN <<>>
    ELSE IF IsNewJob(Head(s)) THEN <<Head(s).job>> \o JobsOf(Tail(s))
    ELSE JobsOf(Tail(s))

\* The jobs handed to execute so far.
Submitted == {j \in Jobs : j[2] <= sent[j[1]]}
\* The workers of the pool, and those that took a job off the channel and have
\* not finished it.
PoolSlots == 0 .. (size - 1)
Holders(j) == {w \in Slots : wmsg[w] = NewJob(j)}
Holding == {w \in Slots : IsNewJob(wmsg[w])}
Executing == {w \in Slots : wpc[w] = "exec"}
Exited == {w \in Slots : wpc[w] = "terminated"}
Pending == {k \in 1 .. Len(queue) : IsNewJob(queue[k])}
TermsSent == Cardinality({k \in 1 .. Len(enq) : enq[k].type = "Terminate"})
InDrop == pc \in {"drop_send", "drop_join", "dropped"}

\* ------------------------------------------------------ main.rs: main
\* A request is the sequence of the tokens at the start of the 1024-byte buffer;
\* GET is the constant b"GET / HTTP/1.1\r\n".
GET == <<"GET", "/", "HTTP/1.1", "CRLF">>
Requests == {
    <<"GET", "/", "HTTP/1.1", "CRLF", "Host: x", "CRLF">>,
    <<"GET", "/", "HTTP/1.1", "CRLF">>,
    <<"GET", "/other", "HTTP/1.1", "CRLF">>,
    <<"POST", "/", "HTTP/1.1", "CRLF">>,
    <<"GET", "/">>,
    <<>> }

\* handle_connection's choice: buffer.starts_with(GET) picks the status line and
\* the file.
Respond(req) ==
    IF IsPrefix(GET, req)
    THEN [status |-> "HTTP/1.1 200 OK", file |-> "views/index.html"]
    ELSE [status |-> "HTTP/1.1 404 NOT FOUND", file |-> "views/404.html"]

\* TcpListener::bind("127.0.0.1:7878").unwrap(): the listener, or a panic.
MainBind ==
    /\ srv.pc = "bind"
    /\ \E ok \in BOOLEAN :
          srv' = [srv EXCEPT !.pc = IF ok THEN "accept" ELSE "bind_panicked"]
    /\ UNCHANGED <<size, pc, i, channel, queue, lock, workers, handle, wpc, wmsg,
                   sent, enq, deq, stops, log, finished>>

\* `for stream in listener.incoming()` yields a connection and the loop body
\* calls handle_connection(stream) on main's own thread.  The bound on the
\* number of connections is the model's.
MainAccept ==
    /\ srv.pc = "accept"
    /\ srv.accepted < MaxConns
    /\ srv' = [srv EXCEPT !.pc = "handling", !.accepted = @ + 1]
    /\ UNCHANGED <<size, pc, i, channel, queue, lock, workers, handle, wpc, wmsg,
                   sent, enq, deq, stops, log, finished>>

\* handle_connection reads the request, writes the response and returns, and the
\* loop goes on to the next connection.  No ThreadPool is made or used.
MainHandle ==
    /\ srv.pc = "handling"
    /\ \E req \in Requests :
          srv' = [srv EXCEPT !.pc = "accept", !.resp = Append(@, Respond(req).status)]
    /\ UNCHANGED <<size, pc, i, channel, queue, lock, workers, handle, wpc, wmsg,
                   sent, enq, deq, stops, log, finished>>

NextMain == MainBind \/ MainAccept \/ MainHandle

\* The program of main.rs.  It never calls ThreadPool::new: the pool's variables
\* stay as they start.
InitMain == Init /\ size = 0
SpecMain == InitMain /\ [][NextMain]_vars

C2_EveryJobExecuted ==
    \A k \in 1 .. MaxJobs :
        (Len(enq) >= k /\ IsNewJob(enq[k]))
            ~> (Len(enq) >= k /\ IsNewJob(enq[k]) /\ finished[enq[k].job] >= 1)

\* Both producers submitted, interleaved with each other, and all is finished.
C2_Witness ==
    /\ TotalSent = MaxJobs
    /\ \A p \in Producers : sent[p] >= 1
    /\ \A j \in Submitted : finished[j] = 1
    /\ pc = "alive"

\* ----------------------------------------------------------------- C3
\* C3: with every thread scheduled fairly and every job returning, a drop that
\* has started returns, whatever the pool size and however many jobs wait or run.
C3_DropReturns == (pc = "drop_send") ~> (pc = "dropped")

\* drop returned on a pool of one worker that was handed more jobs than that.
C3_Witness ==
    /\ pc = "dropped"
    /\ size = 1
    /\ TotalSent > size

\* ----------------------------------------------------------------- C4
\* C4: no Terminate is sent outside drop's first loop, which has sent one per
\* finished iteration; once the join loop is entered exactly one Terminate per
\* worker has been sent, each once, and none is sent later.
C4_TwoPhase ==
    /\ ~InDrop => TermsSent = 0
    /\ pc = "drop_send" => TermsSent = i
    /\ pc \in {"drop_join", "dropped"} =>
          /\ TermsSent = size
          /\ \A n \in PoolSlots : Count(enq, Terminate(n)) = 1

\* The join loop is about to wait for its first worker, which still runs a job.
C4_Witness ==
    /\ pc = "drop_join"
    /\ i = 0
    /\ size = 2
    /\ wpc[workers[1]] = "exec"

C6_DroppedAllTerminated ==
    pc = "dropped" => \A w \in PoolSlots : wpc[w] = "terminated"

\* drop returned on a pool of the largest size.
C6_Witness ==
    /\ pc = "dropped"
    /\ size = MaxSize
    /\ \A w \in PoolSlots : handle[w] = "None"

\* ----------------------------------------------------------------- C7
\* C7: when drop has returned, every job handed to execute has run to its end
\* and the channel holds no job.
C7_NothingSkipped ==
    pc = "dropped" =>
        /\ \A j \in Submitted : finished[j] = 1
        /\ Pending = {}

\* drop returned after the most jobs were submitted, by both producers.
C7_Witness ==
    /\ pc = "dropped"
    /\ TotalSent = MaxJobs
    /\ \A p \in Producers : sent[p] >= 1
    /\ size >= 1

\* ----------------------------------------------------------------- C8
\* C8 as stated: during drop, a worker thread exits only when no worker at all
\* holds a job that was taken off the channel and is not finished.
C8_Original ==
    [][(InDrop /\ \E w \in Slots : wpc[w] # "terminated" /\ wpc'[w] = "terminated")
         => Holding = {}]_vars

\* C8 as amended: a job that was taken off the channel and is not finished is
\* held by exactly one worker thread that has not exited, so a worker exits only
\* with its own job finished; and when drop has returned no such job is left.
C8_OwnItemFinished ==
    /\ \A j \in Range(JobsOf(deq)) :
          finished[j] = 0 => \E w \in Slots \ Exited : Holders(j) = {w}
    /\ Holding \cap Exited = {}
    /\ pc = "dropped" => Holding = {}

\* During drop one worker has exited while another still runs its job.
C8_Witness ==
    /\ InDrop
    /\ Exited # {}
    /\ Executing # {}

\* ----------------------------------------------------------------- C9
\* C9: the messages are received in the order they were sent (what was received
\* followed by what waits is what was sent), and a pool of one worker calls the
\* jobs in the order they were submitted, all of them once drop has returned.
C9_Fifo ==
    /\ IsPrefix(deq, enq)
    /\ enq = deq \o queue
    /\ size = 1 => IsPrefix(log, JobsOf(enq))
    /\ (size = 1 /\ pc = "dropped") => log = JobsOf(enq)

\* One worker ran A of one producer, then B of the other, as they were submitted.
C9_Witness ==
    /\ size = 1
    /\ Len(log) = 2
    /\ log[1][1] # log[2][1]
    /\ log = JobsOf(enq)

\* ---------------------------------------------------------------- C10
\* C10: new(0) can always take its assert step, which panics; it never creates
\* the channel, never spawns a worker thread and never returns a pool.
C10_ZeroPanics ==
    size = 0 =>
        /\ pc \in {"start", "new_panicked"}
        /\ pc = "start" => ENABLED NewAssert
        /\ channel = "none"
        /\ workers = <<>>
        /\ \A w \in Slots : wpc[w] = "unspawned" /\ handle[w] = "None"

\* new(0) has panicked.
C10_Witness == size = 0 /\ pc = "new_panicked"

\* ---------------------------------------------------------------- C11
\* The ids 0 .. n-1 in order, as `for id in 0..n` pushes them.
IdsUpTo(n) == [k \in 1 .. n |-> k - 1]
Spawned == {w \in Slots : wpc[w] # "unspawned"}
Constructed == pc \in {"alive", "drop_send", "drop_join", "dropped"}

\* C11: new(n) with n >= 1 never panics; while it spawns, the workers so far are
\* 0 .. i-1 with i <= n, each with its thread; from its return on, through every
\* execute and through drop, the pool holds exactly the workers 0 .. n-1.
C11_WorkersFixed ==
    size >= 1 =>
        /\ pc # "new_panicked"
        /\ pc = "new_spawn" => i <= size /\ workers = IdsUpTo(i) /\ Spawned = 0 .. (i - 1)
        /\ Constructed => Len(workers) = size /\ workers = IdsUpTo(size) /\ Spawned = PoolSlots

\* A pool of the largest size, after every execute and after drop returned.
C11_Witness ==
    /\ size = MaxSize
    /\ pc = "dropped"
    /\ TotalSent = MaxJobs
    /\ workers = IdsUpTo(MaxSize)

\* ---------------------------------------------------------------- C12
Panicked == {w \in Slots : wpc[w] = "panicked"}

\* C12 as stated: once a job has panicked, the pool that has not been disposed
\* is still there: the Receiver exists, the Mutex is not poisoned, and every
\* other submitted job is waiting in the channel, held by one running worker,
\* or finished.
C12_Original ==
    (pc = "alive" /\ Panicked # {}) =>
        /\ channel # "rx_dropped"
        /\ lock # Poisoned
        /\ \A j \in Submitted \ {BadJob} :
              Count(queue, NewJob(j)) + Cardinality(Holders(j) \cap Live) + finished[j] = 1

\* ---------------------------------------------------------------- C13
\* C13: with every thread scheduled fairly, a drop that has started ends, also
\* when a worker's thread has panicked or panics meanwhile: it returns, or it
\* panics itself on the send to a Receiver that is gone or on the join of the
\* thread that panicked.  It never stays waiting.
C13_DropEnds == (pc = "drop_send") ~> (pc \in {"dropped", "drop_panicked"})

\* drop joined worker 0 and then ended on the last worker, whose thread panicked.
C13_Witness ==
    /\ size = MaxSize
    /\ pc = "drop_panicked"
    /\ wpc[workers[size]] = "panicked"
    /\ handle[0] = "None"
    /\ wpc[0] = "terminated"

\* ---------------------------------------------------------------- C14
\* C14 as stated, its last part: on a pool that has not been disposed execute
\* always succeeds: the Receiver is there and no call of execute panics.
C14_Original ==
    /\ pc = "alive" => channel = "open"
    /\ pc # "execute_panicked"

\* ---------------------------------------------------------------- C15
\* The workers inside `receiver.lock().unwrap().recv().unwrap()`.
InDequeue == {w \in Slots : wpc[w] \in {"locked", "got"}}

\* C15: at most one worker is inside the dequeue, and it is the holder of the
\* Mutex; no message sent is received twice, by one worker or by two, and none
\* is both received and still in the channel.
C15_MutualExclusion ==
    /\ Cardinality(InDequeue) <= 1
    /\ \A w \in InDequeue : lock = w
    /\ lock # NoOne => lock \in InDequeue
    /\ \A m \in Range(enq) : Count(deq, m) + Count(queue, m) <= 1

\* One worker has just received a message under the lock while the other one
\* waits for the lock and a further message waits in the channel.
C15_Witness ==
    \E w, v \in Slots :
        /\ wpc[w] = "got"
        /\ wpc[v] = "idle"
        /\ queue # <<>>

\* ---------------------------------------------------------------- C16
\* C16: a worker that has left the dequeue statement, and so a worker that is
\* executing a job, does not hold the Mutex.
C16_NoLockWhileExecuting ==
    \A w \in Slots : wpc[w] \in {"match", "exec"} => lock # w

\* Two jobs are in execution at once, and the lock is free.
C16_Witness ==
    /\ Cardinality(Executing) = 2
    /\ lock = NoOne

\* ---------------------------------------------------------------- C17
Running == {"idle", "locked", "got", "match", "exec"}

\* C17 as stated: a thread that runs its loop leaves it only from the match, on a
\* Terminate, and is Terminated then; after a NewJob it is back at the top of
\* the loop when the job has returned; a thread that has left the loop stays as
\* it is: it receives nothing and calls nothing any more.
C17_Original ==
    [][\A w \in Slots :
          /\ (wpc[w] \in Running /\ wpc'[w] \notin Running) =>
                /\ wpc[w] = "match"
                /\ wmsg[w].type = "Terminate"
                /\ wpc'[w] = "terminated"
          /\ (wpc[w] = "match" /\ wmsg[w].type = "NewJob") => wpc'[w] \in {"match", "exec"}
          /\ wpc[w] = "exec" => wpc'[w] \in {"exec", "idle"}
          /\ wpc[w] \notin Running \cup {"unspawned"} =>
                /\ wpc'[w] = wpc[w]
                /\ wmsg'[w] = wmsg[w]
                /\ stops'[w] = stops[w]]_vars

\* ---------------------------------------------------------------- C18
\* C18 as stated: main's thread never runs handle_connection itself, and every
\* connection accepted has been handed to the pool as a NewJob.
C18_Original ==
    /\ srv.pc # "handling"
    /\ srv.accepted = Len(JobsOf(enq))

\* ---------------------------------------------------------------- C19
\* Every message after a Terminate is a Terminate.
JobsThenStops(s) ==
    \A k, l \in 1 .. Len(s) : (k < l /\ s[k].type = "Terminate") => s[l].type = "Terminate"

\* C19: what was sent, and so what waits in the channel, is NewJob messages
\* followed by Terminate messages; once a Terminate has been received no NewJob
\* waits in the channel.
C19_QueueShape ==
    /\ JobsThenStops(enq)
    /\ JobsThenStops(queue)
    /\ (\E m \in Range(deq) : m.type = "Terminate") => Pending = {}

\* A job waits in the channel with a Terminate behind it.
C19_Witness ==
    /\ Len(queue) >= 2
    /\ IsNewJob(queue[1])
    /\ queue[Len(queue)].type = "Terminate"

\* ---------------------------------------------------------------- C20
\* The jobs whose closure was called and has not returned.
InExecution == {j \in Jobs : Count(log, j) > finished[j]}

\* C20: the executing threads are workers of the pool, so no more than size of
\* them; each executes one job and no two the same one, so as many jobs are in
\* execution as workers are executing.
C20_BoundedParallelism ==
    /\ Executing \subseteq PoolSlots
    /\ Cardinality(Executing) <= size
    /\ \A w \in Executing : IsNewJob(wmsg[w]) /\ wmsg[w].job \in InExecution
    /\ \A w, v \in Executing : w # v => wmsg[w] # wmsg[v]
    /\ Cardinality(InExecution) = Cardinality(Executing)

\* Every worker of the pool is executing and a job still waits in the channel.
C20_Witness ==
    /\ size >= 1
    /\ Cardinality(Executing) = size
    /\ Pending # {}

====
